---- MODULE Spec2Model ----
(***************************************************************************)
(* Model of csds397_ia2_create_database.py: the employee-data cleaning     *)
(* pipeline (staging load, profile, clean, canonical load).                *)
(*                                                                         *)
(* Text values are sequences of one-character strings, so that strip,      *)
(* upper, title and the date parser/formatter are computed character by    *)
(* character.  A missing text value (None/NaN in the DataFrame, NULL in    *)
(* the store) is the marker None_; a missing number is the marker NaN.     *)
(***************************************************************************)
EXTENDS Integers, Sequences, FiniteSets, TLC

VARIABLES
    pc,              \* position of main()
    conn1, cursor1,  \* first connection and its cursor (main, lines 300-309)
    conn2, cursor2,  \* second connection (line 312) and the loader's cursor (line 225)
    staging,         \* committed rows of employee_data_source
    canonical,       \* committed rows of employee_data
    df_db,           \* DataFrame read back from the staging table
    report,          \* what profile_data found
    cleaned_df,      \* result of clean_data(df_db)
    validated,       \* the validation query of the loader ran
    snapshot,        \* contents of employee_db.csv
    errors,          \* failures that happened in this run
    stages,          \* stages attempted in this run, in order
    priorCanonical,  \* canonical table as the previous run left it
    phase, raw, out, out2   \* the normalizer applied on its own: input, clean(raw), clean(clean(raw))

vars == << pc, conn1, cursor1, conn2, cursor2, staging, canonical, df_db, report,
           cleaned_df, validated, snapshot, errors, stages, priorCanonical,
           phase, raw, out, out2 >>

pipelineVars == << pc, conn1, cursor1, conn2, cursor2, staging, canonical, df_db, report,
                   cleaned_df, validated, snapshot, errors, stages, priorCanonical >>

normalizerVars == << phase, raw, out, out2 >>

-----------------------------------------------------------------------------
(* Bounds *)

MaxRows == 2        \* rows of a table handed to the normalizer on its own
MaxCsvRows == 2     \* rows of the source file in a pipeline run

-----------------------------------------------------------------------------
(* Characters and strings *)

NaN == -99
None_ == <<"NaN">>

Lower == <<"a","b","c","d","e","f","g","h","i","j","k","l","m","n","o","p","q","r","s","t","u","v","w","x","y","z">>
Upper == <<"A","B","C","D","E","F","G","H","I","J","K","L","M","N","O","P","Q","R","S","T","U","V","W","X","Y","Z">>
Digits == <<"0","1","2","3","4","5","6","7","8","9">>
Whitespace == {" ", "\t"}

\* the case tables of the letters, and the value of each digit character
UpperOf == [c \in {Lower[i] : i \in 1..26} |-> Upper[CHOOSE i \in 1..26 : Lower[i] = c]]
LowerOf == [c \in {Upper[i] : i \in 1..26} |-> Lower[CHOOSE i \in 1..26 : Upper[i] = c]]
DigitOf == [c \in {Digits[i] : i \in 1..10} |-> (CHOOSE i \in 1..10 : Digits[i] = c) - 1]

upper_char(c) == IF c \in DOMAIN UpperOf THEN UpperOf[c] ELSE c
lower_char(c) == IF c \in DOMAIN LowerOf THEN LowerOf[c] ELSE c
cased(c) == c \in DOMAIN UpperOf \/ c \in DOMAIN LowerOf

\* str.strip(): leading and trailing whitespace removed
str_strip(s) ==
    LET keep == {i \in 1..Len(s) : s[i] \notin Whitespace}
    IN  IF keep = {} THEN <<>>
        ELSE SubSeq(s, CHOOSE i \in keep : \A j \in keep : i <= j,
                       CHOOSE i \in keep : \A j \in keep : i >= j)

\* str.title(): a cased character is uppercased after an uncased one, lowercased otherwise
str_title(s) ==
    [i \in 1..Len(s) |->
        IF i = 1 \/ ~cased(s[i-1]) THEN upper_char(s[i]) ELSE lower_char(s[i])]

\* str.upper()
str_upper(s) == [i \in 1..Len(s) |-> upper_char(s[i])]

\* str.replace(r'\s+', '', regex=True): only the edges are stripped (a faulty variant)
remove_whitespace_edges_only(s) == str_strip(s)

\* str.replace(r'\s+', '', regex=True): every whitespace character removed
remove_whitespace(s) == SelectSeq(s, LAMBDA c : c \notin Whitespace)

\* astype(str): None becomes the text "None"
astype_str(v) == IF v = None_ THEN <<"N","o","n","e">> ELSE v

Unknown == <<"U","n","k","n","o","w","n">>

-----------------------------------------------------------------------------
(* Dates: pd.to_datetime(errors='coerce') and dt.strftime("%Y-%m-%d") *)

NaT == [y |-> 0, m |-> 0, d |-> 0]
DefaultDate == [y |-> 1900, m |-> 1, d |-> 1]

digit(c) == IF c \in DOMAIN DigitOf THEN DigitOf[c] ELSE -1
all_digits(s, idx) == \A i \in idx : digit(s[i]) >= 0
number(s, from, to) ==
    LET f[i \in (from-1)..to] == IF i = from - 1 THEN 0 ELSE 10 * f[i-1] + digit(s[i])
    IN  f[to]

leap(y) == (y % 4 = 0 /\ y % 100 # 0) \/ y % 400 = 0
days_in_month(y, m) ==
    IF m = 2 THEN (IF leap(y) THEN 29 ELSE 28)
    ELSE IF m \in {4, 6, 9, 11} THEN 30 ELSE 31

timestamp(y, m, d) ==
    IF y >= 1 /\ m \in 1..12 /\ d >= 1 /\ d <= days_in_month(y, m)
    THEN [y |-> y, m |-> m, d |-> d]
    ELSE NaT

\* The parser is modelled for the two layouts YYYY-MM-DD and MM/DD/YYYY;
\* every other text, and a missing value, is coerced to NaT.
to_datetime(v) ==
    IF v = None_ THEN NaT
    ELSE LET s == str_strip(v)
         IN  IF /\ Len(s) = 10 /\ s[5] = "-" /\ s[8] = "-"
                /\ all_digits(s, {1,2,3,4,6,7,9,10})
             THEN timestamp(number(s, 1, 4), number(s, 6, 7), number(s, 9, 10))
             ELSE IF /\ Len(s) = 10 /\ s[3] = "/" /\ s[6] = "/"
                     /\ all_digits(s, {1,2,4,5,7,8,9,10})
             THEN timestamp(number(s, 7, 10), number(s, 1, 2), number(s, 4, 5))
             ELSE NaT

strftime(ts) ==
    << Digits[((ts.y \div 1000) % 10) + 1], Digits[((ts.y \div 100) % 10) + 1],
       Digits[((ts.y \div 10) % 10) + 1],   Digits[(ts.y % 10) + 1], "-",
       Digits[((ts.m \div 10) % 10) + 1],   Digits[(ts.m % 10) + 1], "-",
       Digits[((ts.d \div 10) % 10) + 1],   Digits[(ts.d % 10) + 1] >>

-----------------------------------------------------------------------------
(* clean_data *)

S_OPERATIONS == <<"O","P","E","R","A","T","I","O","N","S">>
S_CUSTOMER_SUPPORT == <<"C","U","S","T","O","M","E","R"," ","S","U","P","P","O","R","T">>
S_HR == <<"H","R">>
S_IT == <<"I","T">>
S_LOGISTICS == <<"L","O","G","I","S","T","I","C","S">>
S_LEGAL == <<"L","E","G","A","L">>
S_MARKETING == <<"M","A","R","K","E","T","I","N","G">>
S_SALES == <<"S","A","L","E","S">>
S_FINANCE == <<"F","I","N","A","N","C","E">>
S_RND == <<"R","&","D">>

\* the mapping table, as pairs << key, standard name >>
dept_mapping ==
    { << <<"O","P","E","R","A","T","I","O","N","S">>, S_OPERATIONS >>,
      << <<"O","P","R","A","T","I","O","N","S">>, S_OPERATIONS >>,
      << <<"C","U","S","T","O","M","E","R","S","U","P","P","O","R","T">>, S_CUSTOMER_SUPPORT >>,
      << <<"C","U","S","T","S","U","P","P","O","R","T">>, S_CUSTOMER_SUPPORT >>,
      << <<"H","R">>, S_HR >>,
      << <<"I","T">>, S_IT >>,
      << <<"L","O","G","I","S","T","I","C","S">>, S_LOGISTICS >>,
      << <<"L","O","G","S","T","I","C","S">>, S_LOGISTICS >>,
      << <<"L","E","G","A","L">>, S_LEGAL >>,
      << <<"L","E","G","L">>, S_LEGAL >>,
      << <<"M","A","R","K","E","T","I","N","G">>, S_MARKETING >>,
      << <<"M","A","R","K","N","G">>, S_MARKETING >>,
      << <<"M","A","R","K","T","I","N","G">>, S_MARKETING >>,
      << <<"S","A","L","E","S">>, S_SALES >>,
      << <<"F","I","N","A","N","C","E">>, S_FINANCE >>,
      << <<"F","I","N">>, S_FINANCE >>,
      << <<"F","I","N","A","N","A","C","E">>, S_FINANCE >>,
      << <<"R","&","D">>, S_RND >>,
      << <<"R","N","D">>, S_RND >>,
      << <<"R","E","S","E","A","R","C","H">>, S_RND >>,
      << <<"S","U","P","P","O","R","T">>, S_CUSTOMER_SUPPORT >>,
      << <<"H","U","M","A","N","R","E","S","O","U","R","C","E","S">>, S_HR >> }

\* Series.map(dept_mapping).fillna(original), with HR expanded instead of kept (a faulty variant)
map_department_expanding(d) ==
    IF d = S_HR THEN <<"H","U","M","A","N"," ","R","E","S","O","U","R","C","E","S">>
    ELSE IF \E p \in dept_mapping : p[1] = d
    THEN (CHOOSE p \in dept_mapping : p[1] = d)[2]
    ELSE d

\* Series.map(dept_mapping).fillna(original): a key gives its standard name, anything else stays
map_department(d) ==
    IF \E p \in dept_mapping : p[1] = d
    THEN (CHOOSE p \in dept_mapping : p[1] = d)[2]
    ELSE d

\* Step 1: fillna on Name, Performance_Rating, Country, Years_of_Experience
fillna_defaults(df) ==
    [i \in 1..Len(df) |->
        [df[i] EXCEPT
            !.Name = IF @ = None_ THEN Unknown ELSE @,
            !.Performance_Rating = IF @ = None_ THEN Unknown ELSE @,
            !.Country = IF @ = None_ THEN Unknown ELSE @,
            !.Years_of_Experience = IF @ = NaN THEN -1 ELSE @]]

\* Step 2: parse, default the unparseable to 1900-01-01, format as YYYY-MM-DD
standardize_dates(df) ==
    [i \in 1..Len(df) |->
        LET parsed == to_datetime(df[i].Date_of_Joining)
        IN  [df[i] EXCEPT
                !.Date_of_Joining = strftime(IF parsed = NaT THEN DefaultDate ELSE parsed)]]

\* the rows of df at the positions in keep, in the order of df
take(df, keep) ==
    LET f[i \in 0..Len(df)] ==
            IF i = 0 THEN <<>>
            ELSE IF i \in keep THEN Append(f[i-1], df[i]) ELSE f[i-1]
    IN  f[Len(df)]

\* drop_duplicates with keep="last" (a faulty variant)
drop_duplicates_keep_last(df) ==
    take(df, {i \in 1..Len(df) :
                \A j \in (i+1)..Len(df) : df[j].Employee_ID # df[i].Employee_ID})

\* drop_duplicates with subset=[id, Name], as the profiler groups (a faulty variant)
drop_duplicates_by_id_and_name(df) ==
    take(df, {i \in 1..Len(df) :
                \A j \in 1..(i-1) : \/ df[j].Employee_ID # df[i].Employee_ID
                                    \/ df[j].Name # df[i].Name})

\* Step 3: drop_duplicates(subset=[Employee_ID], keep="first"); missing ids equal each other
drop_duplicates(df) ==
    take(df, {i \in 1..Len(df) :
                \A j \in 1..(i-1) : df[j].Employee_ID # df[i].Employee_ID})

\* Step 4: Name and Country stripped and title-cased; Department stripped of all
\* whitespace, uppercased and mapped
normalize_text(df) ==
    [i \in 1..Len(df) |->
        [df[i] EXCEPT
            !.Name = str_title(str_strip(astype_str(@))),
            !.Department = map_department(str_upper(remove_whitespace(astype_str(@)))),
            !.Country = str_title(str_strip(astype_str(@)))]]

clean_data(df) ==
    normalize_text(drop_duplicates(standardize_dates(fillna_defaults(df))))

-----------------------------------------------------------------------------
(* Raw rows *)

BaseRow ==
    [ id |-> 0, Employee_ID |-> 1,
      Name |-> <<"J","o","h","n">>, Age |-> 30,
      Department |-> <<"I","T">>,
      Date_of_Joining |-> <<"2","0","2","2","-","0","1","-","1","3">>,
      Years_of_Experience |-> 5, Country |-> <<"U","s","a">>,
      Salary |-> 50000, Performance_Rating |-> <<"G","o","o","d">> ]

RawNames == { None_, <<" ","j","o","h","n"," ","d","o","e"," ">>, <<"J","A","N","E">> }
RawDepartments ==
    { None_, <<"h","r">>, <<" ","C","u","s","t"," ","S","u","p","p","o","r","t"," ">>,
      <<"r"," ","&"," ","d">>, <<"q","a"," ","l","a","b">> }
RawDates ==
    { None_, <<"0","1","/","1","3","/","2","0","2","2">>, <<"n","/","a">>,
      <<"2","0","2","2","-","0","2","-","3","0">> }
RawCountries == { None_, <<" ","u","s","a">> }

\* Rows with identifier e that differ from BaseRow in one group of columns
Variants(e) ==
    {[BaseRow EXCEPT !.Employee_ID = e, !.Name = n] : n \in RawNames}
    \cup {[BaseRow EXCEPT !.Employee_ID = e, !.Department = d] : d \in RawDepartments}
    \cup {[BaseRow EXCEPT !.Employee_ID = e, !.Date_of_Joining = d] : d \in RawDates}
    \cup {[BaseRow EXCEPT !.Employee_ID = e, !.Country = c] : c \in RawCountries}
    \cup {[BaseRow EXCEPT !.Employee_ID = e, !.Age = NaN, !.Salary = NaN,
                          !.Years_of_Experience = NaN, !.Performance_Rating = None_]}

\* a missing identifier, a repeated identifier, and two rows of a third employee
RawRows ==
    Variants(NaN) \cup Variants(1)
    \cup { [BaseRow EXCEPT !.Employee_ID = 2],
           [BaseRow EXCEPT !.Employee_ID = 2, !.Name = None_, !.Department = <<"h","r">>] }

\* the store's AUTO_INCREMENT surrogate key: row i gets id i
with_ids(rows) == [i \in 1..Len(rows) |-> [rows[i] EXCEPT !.id = i]]

Tables(rowset, n) == UNION { [1..k -> rowset] : k \in 0..n }

-----------------------------------------------------------------------------
(* The normalizer on its own *)

InitPipeline ==
    /\ pc = "start"
    /\ conn1 = "none" /\ cursor1 = "none" /\ conn2 = "none" /\ cursor2 = "none"
    /\ staging = <<>> /\ canonical = <<>>
    /\ df_db = <<>> /\ cleaned_df = <<>>
    /\ report = [shape |-> 0, duplicates |-> {}, invalid_dates |-> {}]
    /\ validated = FALSE /\ snapshot = <<>>
    /\ errors = {} /\ stages = <<>>
    /\ priorCanonical = <<>>

InitClean ==
    /\ InitPipeline
    /\ phase = "raw"
    /\ raw \in {with_ids(t) : t \in Tables(RawRows, MaxRows)}
    /\ out = <<>> /\ out2 = <<>>

Clean ==
    /\ phase = "raw"
    /\ out' = clean_data(raw)
    /\ phase' = "cleaned"
    /\ UNCHANGED << raw, out2 >>
    /\ UNCHANGED pipelineVars

CleanAgain ==
    /\ phase = "cleaned"
    /\ out2' = clean_data(out)
    /\ phase' = "recleaned"
    /\ UNCHANGED << raw, out >>
    /\ UNCHANGED pipelineVars

NextNormalizer == Clean \/ CleanAgain

SpecClean == InitClean /\ [][NextNormalizer]_vars

-----------------------------------------------------------------------------
(* Properties of clean_data *)

\* the positions of raw whose identifier appears at no earlier position
FirstOccurrences ==
    {i \in 1..Len(raw) : ~ \E j \in 1..(i-1) : raw[j].Employee_ID = raw[i].Employee_ID}

\* C1: the output of clean_data has no two rows with the same Employee_ID,
\* a missing Employee_ID counting as a value like any other.
C1_UniqueIdentifiers ==
    phase # "raw" =>
        \A k1, k2 \in 1..Len(out) :
            k1 # k2 => out[k1].Employee_ID # out[k2].Employee_ID

\* C1 witness: cleaned a table in which a missing identifier is repeated
C1_Witness ==
    /\ phase = "cleaned"
    /\ \E i, j \in 1..Len(raw) :
          i # j /\ raw[i].Employee_ID = NaN /\ raw[j].Employee_ID = NaN

\* C2: cleaning the cleaned table changes nothing: same rows, same columns.
C2_Idempotent ==
    phase = "recleaned" => out2 = out

\* C2 witness: cleaned twice a table with a department mapped to a label with a
\* space and with a missing or unparseable text column
C2_Witness ==
    /\ phase = "recleaned"
    /\ \E k \in 1..Len(out) : out[k].Department = S_CUSTOMER_SUPPORT
    /\ \E k \in 1..Len(out) :
          \/ raw[out[k].id].Name = None_
          \/ raw[out[k].id].Country = None_
          \/ raw[out[k].id].Department = None_
          \/ to_datetime(raw[out[k].id].Date_of_Joining) = NaT

\* C3: the output holds exactly the first row of every identifier, in input
\* order, each with the normalized fields of that first row.
C3_KeepsFirstOccurrence ==
    phase # "raw" =>
        /\ {out[k].id : k \in 1..Len(out)} = FirstOccurrences
        /\ \A k1, k2 \in 1..Len(out) : k1 < k2 => out[k1].id < out[k2].id
        /\ \A k \in 1..Len(out) : out[k] = clean_data(<< raw[out[k].id] >>)[1]
        /\ \A k \in 1..Len(out) :
              /\ out[k].Employee_ID = raw[out[k].id].Employee_ID
              /\ out[k].Age = raw[out[k].id].Age
              /\ out[k].Salary = raw[out[k].id].Salary

\* C3 witness: cleaned a table whose second row repeats the identifier of the
\* first with a different name
C3_Witness ==
    /\ phase = "cleaned"
    /\ Len(raw) >= 2
    /\ raw[1].Employee_ID = raw[2].Employee_ID
    /\ raw[1].Name # raw[2].Name
    /\ Len(out) = Len(raw) - 1

\* the text r without its whitespace characters, uppercased
StrippedUppercased(r) ==
    LET f[i \in 0..Len(r)] ==
            IF i = 0 THEN <<>>
            ELSE IF r[i] \in Whitespace THEN f[i-1]
            ELSE Append(f[i-1], upper_char(r[i]))
    IN  f[Len(r)]

\* C4: for a row whose raw Department is present, the output Department is the
\* standard name of the stripped, uppercased raw value when that is a key of
\* the mapping table, and the stripped, uppercased raw value itself otherwise.
C4_DepartmentClosure ==
    phase # "raw" =>
        \A k \in 1..Len(out) :
            LET r == raw[out[k].id].Department
                u == StrippedUppercased(r)
            IN  r # None_ =>
                  /\ \A p \in dept_mapping : p[1] = u => out[k].Department = p[2]
                  /\ (~ \E p \in dept_mapping : p[1] = u) => out[k].Department = u

\* C4 witness: cleaned a table with a mapped department and an unmapped one
\* holding inner whitespace
C4_Witness ==
    /\ phase = "cleaned"
    /\ \E k \in 1..Len(out) :
          /\ raw[out[k].id].Department # None_
          /\ out[k].Department = S_CUSTOMER_SUPPORT
    /\ \E k \in 1..Len(out) :
          /\ raw[out[k].id].Department = <<"q","a"," ","l","a","b">>
          /\ out[k].Department = <<"Q","A","L","A","B">>

\* C5: a row whose raw Department is missing has a missing Department in the
\* output, as its missing Age, Salary and Employee_ID stay missing.
C5_NullDepartmentStaysNull ==
    phase # "raw" =>
        \A k \in 1..Len(out) :
            /\ raw[out[k].id].Department = None_ => out[k].Department = None_
            /\ raw[out[k].id].Age = NaN => out[k].Age = NaN
            /\ raw[out[k].id].Salary = NaN => out[k].Salary = NaN
            /\ raw[out[k].id].Employee_ID = NaN => out[k].Employee_ID = NaN

-----------------------------------------------------------------------------
(* The pipeline: main() and the functions it calls *)

\* rows the source file may hold: employee 1 twice, employee 2, and a row without identifier
CsvRows ==
    { BaseRow,
      [BaseRow EXCEPT !.Name = <<" ","j","o","h","n"," ","d","o","e"," ">>,
                      !.Department = <<"h","r">>],
      [BaseRow EXCEPT !.Employee_ID = 2, !.Date_of_Joining = <<"n","/","a">>],
      [BaseRow EXCEPT !.Employee_ID = NaN, !.Department = None_] }

AllStages == << "staging", "profile", "clean", "canonical" >>

\* a row of employee_data: no surrogate id, Date_of_Joining of type DATE
canonical_row(r) ==
    [ Employee_ID |-> r.Employee_ID, Name |-> r.Name, Age |-> r.Age,
      Department |-> r.Department, Date_of_Joining |-> to_datetime(r.Date_of_Joining),
      Years_of_Experience |-> r.Years_of_Experience, Country |-> r.Country,
      Salary |-> r.Salary, Performance_Rating |-> r.Performance_Rating ]

\* a line of employee_db.csv: the DATE written as text
snapshot_row(r) == [r EXCEPT !.Date_of_Joining = strftime(@)]

\* Employee_ID INT PRIMARY KEY: no missing key, no key twice
primary_key_violation(data, table) ==
    \/ \E i \in 1..Len(data) : data[i].Employee_ID = NaN
    \/ \E i, j \in 1..Len(data) : i # j /\ data[i].Employee_ID = data[j].Employee_ID
    \/ \E i \in 1..Len(data), j \in 1..Len(table) :
          data[i].Employee_ID = table[j].Employee_ID

raise(what) ==
    /\ pc' = "crashed"
    /\ errors' = errors \cup {what}

\* lines 300-305: connect and open a cursor
connect ==
    /\ pc = "start"
    /\ \E reachable \in BOOLEAN :
          IF reachable
          THEN /\ conn1' = "open" /\ cursor1' = "open"
               /\ pc' = "setup_database"
               /\ UNCHANGED errors
          ELSE /\ raise("connect")
               /\ UNCHANGED << conn1, cursor1 >>
    /\ UNCHANGED << conn2, cursor2, staging, canonical, df_db, report, cleaned_df,
                    validated, snapshot, stages, priorCanonical >>
    /\ UNCHANGED normalizerVars

\* lines 7-45: both tables dropped and created again; DDL commits by itself
setup_database ==
    /\ pc = "setup_database"
    /\ \E ok \in BOOLEAN :
          IF ok
          THEN /\ staging' = <<>> /\ canonical' = <<>>
               /\ pc' = "load_csv_into_db"
               /\ UNCHANGED errors
          ELSE /\ raise("setup_database")
               /\ UNCHANGED << staging, canonical >>
    /\ UNCHANGED << conn1, cursor1, conn2, cursor2, df_db, report, cleaned_df,
                    validated, snapshot, stages, priorCanonical >>
    /\ UNCHANGED normalizerVars

\* lines 48-75 with the FileNotFoundError handler missing (a faulty variant)
load_csv_into_db_not_caught ==
    /\ pc = "load_csv_into_db"
    /\ stages' = Append(stages, "staging")
    /\ \E present \in BOOLEAN, rows \in Tables(CsvRows, MaxCsvRows), ok \in BOOLEAN :
          IF ~present
          THEN /\ raise("csv_not_found")
               /\ UNCHANGED staging
          ELSE IF ~ok
          THEN /\ errors' = errors \cup {"staging_insert"}
               /\ pc' = "close"
               /\ UNCHANGED staging
          ELSE /\ staging' = with_ids(rows)
               /\ pc' = "close"
               /\ UNCHANGED errors
    /\ UNCHANGED << conn1, cursor1, conn2, cursor2, canonical, df_db, report, cleaned_df,
                    validated, snapshot, priorCanonical >>
    /\ UNCHANGED normalizerVars

\* lines 48-75: the file is read and its rows inserted and committed; a missing
\* file and any other exception are printed and swallowed
load_csv_into_db ==
    /\ pc = "load_csv_into_db"
    /\ stages' = Append(stages, "staging")
    /\ pc' = "close"
    /\ \E present \in BOOLEAN, rows \in Tables(CsvRows, MaxCsvRows), ok \in BOOLEAN :
          IF ~present
          THEN /\ errors' = errors \cup {"csv_not_found"}
               /\ UNCHANGED staging
          ELSE IF ~ok
          THEN /\ errors' = errors \cup {"staging_insert"}
               /\ UNCHANGED staging
          ELSE /\ staging' = with_ids(rows)
               /\ UNCHANGED errors
    /\ UNCHANGED << conn1, cursor1, conn2, cursor2, canonical, df_db, report, cleaned_df,
                    validated, snapshot, priorCanonical >>
    /\ UNCHANGED normalizerVars

\* lines 308-309
close_first ==
    /\ pc = "close"
    /\ cursor1' = "closed" /\ conn1' = "closed"
    /\ pc' = "reconnect"
    /\ UNCHANGED << conn2, cursor2, staging, canonical, df_db, report, cleaned_df,
                    validated, snapshot, errors, stages, priorCanonical >>
    /\ UNCHANGED normalizerVars

\* lines 312-317
reconnect ==
    /\ pc = "reconnect"
    /\ \E reachable \in BOOLEAN :
          IF reachable
          THEN /\ conn2' = "open"
               /\ pc' = "load_data_from_db"
               /\ UNCHANGED errors
          ELSE /\ raise("reconnect")
               /\ UNCHANGED conn2
    /\ UNCHANGED << conn1, cursor1, cursor2, staging, canonical, df_db, report,
                    cleaned_df, validated, snapshot, stages, priorCanonical >>
    /\ UNCHANGED normalizerVars

\* lines 78-82: SELECT * FROM employee_data_source
load_data_from_db ==
    /\ pc = "load_data_from_db"
    /\ \E ok \in BOOLEAN :
          IF ok
          THEN /\ df_db' = staging
               /\ pc' = "profile_data"
               /\ UNCHANGED errors
          ELSE /\ raise("load_data_from_db")
               /\ UNCHANGED df_db
    /\ UNCHANGED << conn1, cursor1, conn2, cursor2, staging, canonical, report,
                    cleaned_df, validated, snapshot, stages, priorCanonical >>
    /\ UNCHANGED normalizerVars

\* lines 90-141: the report; the Parsed_Date column is added and dropped again
profile_data ==
    /\ pc = "profile_data"
    /\ stages' = Append(stages, "profile")
    /\ report' =
          [ shape |-> Len(df_db),
            duplicates |->
                {df_db[i].id : i \in {i \in 1..Len(df_db) :
                    \E j \in 1..Len(df_db) :
                        /\ j # i
                        /\ df_db[j].Employee_ID = df_db[i].Employee_ID
                        /\ df_db[j].Name = df_db[i].Name}},
            invalid_dates |->
                {df_db[i].id : i \in {i \in 1..Len(df_db) :
                    /\ to_datetime(df_db[i].Date_of_Joining) = NaT
                    /\ df_db[i].Date_of_Joining # None_}} ]
    /\ pc' = "clean_data"
    /\ UNCHANGED << conn1, cursor1, conn2, cursor2, staging, canonical, df_db,
                    cleaned_df, validated, snapshot, errors, priorCanonical >>
    /\ UNCHANGED normalizerVars

\* line 326
clean ==
    /\ pc = "clean_data"
    /\ stages' = Append(stages, "clean")
    /\ cleaned_df' = clean_data(df_db)
    /\ pc' = "load_clean_data_to_final_table"
    /\ UNCHANGED << conn1, cursor1, conn2, cursor2, staging, canonical, df_db, report,
                    validated, snapshot, errors, priorCanonical >>
    /\ UNCHANGED normalizerVars

\* lines 219-295: cursor, CREATE TABLE IF NOT EXISTS, insert and commit (any
\* exception printed and swallowed), validation query, export, cursor closed
load_clean_data_to_final_table ==
    /\ pc = "load_clean_data_to_final_table"
    /\ stages' = Append(stages, "canonical")
    /\ \E fault \in {"none", "create", "validate", "export"} :
          LET data == [i \in 1..Len(cleaned_df) |-> canonical_row(cleaned_df[i])]
              insert_fails == primary_key_violation(data, canonical)
              final == IF insert_fails THEN canonical ELSE canonical \o data
              export_fails == fault \in {"validate", "export"}
          IN  IF fault = "create"
              THEN /\ raise("canonical_create")
                   /\ cursor2' = "open"
                   /\ UNCHANGED << canonical, validated, snapshot >>
              ELSE /\ canonical' = final
                   /\ validated' = (fault # "validate")
                   /\ snapshot' = IF export_fails THEN snapshot
                                  ELSE [i \in 1..Len(final) |-> snapshot_row(final[i])]
                   /\ errors' = errors
                          \cup (IF insert_fails THEN {"canonical_insert"} ELSE {})
                          \cup (IF fault = "validate" THEN {"validation"} ELSE {})
                          \cup (IF export_fails THEN {"export"} ELSE {})
                   /\ cursor2' = "closed"
                   /\ pc' = "close_second"
    /\ UNCHANGED << conn1, cursor1, conn2, staging, df_db, report, cleaned_df,
                    priorCanonical >>
    /\ UNCHANGED normalizerVars

\* line 337
close_second ==
    /\ pc = "close_second"
    /\ conn2' = "closed"
    /\ pc' = "done"
    /\ UNCHANGED << conn1, cursor1, cursor2, staging, canonical, df_db, report,
                    cleaned_df, validated, snapshot, errors, stages, priorCanonical >>
    /\ UNCHANGED normalizerVars

\* the script is run again: a new process against the same store and files
run_again ==
    /\ pc \in {"done", "crashed"}
    /\ pc' = "start"
    /\ conn1' = "none" /\ cursor1' = "none" /\ conn2' = "none" /\ cursor2' = "none"
    /\ df_db' = <<>> /\ cleaned_df' = <<>>
    /\ report' = [shape |-> 0, duplicates |-> {}, invalid_dates |-> {}]
    /\ validated' = FALSE
    /\ errors' = {} /\ stages' = <<>>
    /\ priorCanonical' = canonical
    /\ UNCHANGED << staging, canonical, snapshot >>
    /\ UNCHANGED normalizerVars

Init ==
    /\ InitPipeline
    /\ phase = "idle" /\ raw = <<>> /\ out = <<>> /\ out2 = <<>>

Next ==
    \/ connect
    \/ setup_database
    \/ load_csv_into_db
    \/ close_first
    \/ reconnect
    \/ load_data_from_db
    \/ profile_data
    \/ clean
    \/ load_clean_data_to_final_table
    \/ close_second
    \/ run_again

Spec == Init /\ [][Next]_vars

-----------------------------------------------------------------------------
(* Properties of the pipeline *)

Released(r) == r \in {"none", "closed"}

IsPrefix(a, b) == Len(a) <= Len(b) /\ \A i \in 1..Len(a) : a[i] = b[i]

\* C6: a failed insert into employee_data reaches the caller as an error: the
\* loader does not go on to its validation and export steps and return normally.
C6_InsertFailureSurfaces ==
    "canonical_insert" \in errors => (pc = "crashed" /\ ~validated)

\* C7: at the end of a run whose canonical insert failed, employee_data holds
\* exactly the rows the previous run committed.
C7_PriorRowsSurviveFailedInsert ==
    (pc = "done" /\ "canonical_insert" \in errors) => canonical = priorCanonical

\* C8: with the source file absent nothing is inserted and nothing is raised by
\* the staging load, the staging table is empty, only a store failure in a
\* later step can stop the run, and a run that reaches its end has gone through
\* all four stages on the empty dataset, closed both connections and left
\* employee_data empty.
C8_MissingSourceContinuesEmpty ==
    "csv_not_found" \in errors =>
        /\ staging = <<>>
        /\ pc = "crashed" =>
              errors \cap {"reconnect", "load_data_from_db", "canonical_create"} # {}
        /\ pc \in {"profile_data", "clean_data", "load_clean_data_to_final_table",
                   "close_second", "done"} => df_db = <<>>
        /\ pc \in {"close_second", "done"} =>
              /\ report.shape = 0
              /\ cleaned_df = <<>>
              /\ canonical = <<>>
              /\ "canonical_insert" \notin errors
        /\ pc = "done" =>
              /\ stages = AllStages
              /\ conn1 = "closed" /\ cursor1 = "closed"
              /\ conn2 = "closed" /\ cursor2 = "closed"

\* C8 witness: a second run, after one that staged and loaded rows, found the
\* file absent and reached its end
C8_Witness ==
    /\ pc = "done"
    /\ errors = {"csv_not_found"}
    /\ priorCanonical # <<>>
    /\ canonical = <<>>

\* the number of stages attempted when the failure f is raised
StagesAt(f) ==
    IF f \in {"connect", "setup_database"} THEN 0
    ELSE IF f \in {"staging_insert", "reconnect", "load_data_from_db"} THEN 1
    ELSE 4

\* C9: the stages run in the order staging, profile, clean, canonical, each at
\* most once, and after a failure other than a missing source file or a failed
\* export the run is over and no later stage is attempted.
C9_StagesInOrderStopOnFailure ==
    /\ IsPrefix(stages, AllStages)
    /\ \A f \in errors \ {"csv_not_found", "export", "validation"} :
          Len(stages) <= StagesAt(f)

\* C10: when the run is over, normally or by an exception, every connection
\* and cursor it opened is closed.
C10_ConnectionsReleased ==
    pc \in {"done", "crashed"} =>
        /\ Released(conn1) /\ Released(cursor1)
        /\ Released(conn2) /\ Released(cursor2)

====
